---- MODULE Spec2Model ----
(***************************************************************************)
(* gopenbridge: the chat proxy that accepts Anthropic-style Messages calls *)
(* and forwards them to an OpenAI-compatible upstream.                     *)
(*                                                                         *)
(* The model follows ChatProxy.ServeHTTP / ChatProxy.processRequest and    *)
(* their helpers (detectProvider, convertMessages,                         *)
(* convertToolsForProvider) of the proxy package, the variant with the     *)
(* SQLite audit table.                                                     *)
(*                                                                         *)
(* Go values held in interface{} are records tagged by t; JSON texts      *)
(* are syntax trees tagged by j, with the tree "invalid" for bytes that are not  *)
(* JSON; strings that the code scans character by character (the base     *)
(* URL) are sequences of one-character strings.                            *)
(***************************************************************************)
EXTENDS Integers, Sequences, FiniteSets, TLC

VARIABLES
    cfg,        \* p.cfg: the read-only configuration of the ChatProxy
    inbound,    \* per call: the body the client sends
    upstream,   \* per call: what the upstream does with the outbound call
    store,      \* per call: what the audit store does with the INSERT:
                \* "accept", "reject", or "hang" (Exec never returns)
    uuids,      \* per call: the values successive uuid.New() calls return
    pc,         \* per call: position of the handler
    loc,        \* per call: the locals of ServeHTTP / processRequest
    wire,       \* per call: outbound HTTP requests issued to the upstream
    execs,      \* per call: rows handed to p.db.Exec
    db,         \* rows of table api_logs
    oplog,      \* per call: lines written with log.Printf
    resp        \* per call: what the caller receives

vars == <<cfg, inbound, upstream, store, uuids, pc, loc, wire, execs, db, oplog, resp>>

(***************************************************************************)
(* Go values (interface{}), typed nil map / nil slice included.            *)
(***************************************************************************)
GoNil == [t |-> "nil"]
GoNilMap == [t |-> "nilmap"]
GoNilSlice == [t |-> "nilslice"]
GoStr(s) == [t |-> "string", s |-> s]
GoNum(n) == [t |-> "float64", n |-> n]
GoInt(n) == [t |-> "int", n |-> n]
GoMap(m) == [t |-> "map", m |-> m]
GoArr(a) == [t |-> "slice", a |-> a]

EmptyFcn == [k \in {} |-> GoNil]

\* m[k] on a map[string]interface{}: the zero value (nil) when k is missing
\* or the map is nil.
Get(m, k) == IF m.t = "map" /\ k \in DOMAIN m.m THEN m.m[k] ELSE GoNil
\* _, exists := m[k]
Has(m, k) == m.t = "map" /\ k \in DOMAIN m.m
\* x.(map[string]interface{}) with the comma-ok form: nil map when !ok
AsMap(x) == IF x.t = "map" THEN x ELSE GoNilMap
IsMap(x) == x.t = "map"
\* x.([]interface{}) with the comma-ok form
IsArr(x) == x.t = "slice"
ArrOf(x) == IF x.t = "slice" THEN x.a ELSE <<>>
\* x.(string) with the comma-ok form: "" when !ok
IsStr(x) == x.t = "string"
StrOf(x) == IF x.t = "string" THEN x.s ELSE ""
\* x.(float64) with the comma-ok form: 0 when !ok
NumOf(x) == IF x.t = "float64" THEN x.n ELSE 0

(***************************************************************************)
(* JSON texts.                                                             *)
(***************************************************************************)
JInvalid == [j |-> "invalid"]
JNull == [j |-> "null"]
JNum(n) == [j |-> "number", n |-> n]
JStr(s) == [j |-> "string", s |-> s]
JArr(a) == [j |-> "array", a |-> a]
JObj(o) == [j |-> "object", o |-> o]

\* json.Unmarshal into an interface{}: null -> nil, number -> float64,
\* string -> string, array -> []interface{}, object -> map[string]interface{}
RECURSIVE Dec(_)
Dec(d) ==
    CASE d.j = "null"   -> GoNil
      [] d.j = "number" -> GoNum(d.n)
      [] d.j = "string" -> GoStr(d.s)
      [] d.j = "array"  -> GoArr([i \in 1..Len(d.a) |-> Dec(d.a[i])])
      [] d.j = "object" -> GoMap([k \in DOMAIN d.o |-> Dec(d.o[k])])

\* json.Unmarshal(text, &m) for m of type map[string]interface{} holding cur:
\* a syntax error or a JSON value that is not an object is an error and
\* leaves m alone; the JSON null sets m to the nil map without an error.
UnmarshalMap(d, cur) ==
    CASE d.j = "invalid" -> [err |-> TRUE, val |-> cur]
      [] d.j = "null"    -> [err |-> FALSE, val |-> GoNilMap]
      [] d.j = "object"  -> [err |-> FALSE, val |-> Dec(d)]
      [] OTHER           -> [err |-> TRUE, val |-> cur]

\* json.Marshal / json.Encoder.Encode of a Go value: every nil is null.
RECURSIVE Encode(_)
Encode(x) ==
    CASE x.t \in {"nil", "nilmap", "nilslice"} -> JNull
      [] x.t = "string"  -> JStr(x.s)
      [] x.t \in {"float64", "int"} -> JNum(x.n)
      [] x.t = "slice"   -> JArr([i \in 1..Len(x.a) |-> Encode(x.a[i])])
      [] x.t = "map"     -> JObj([k \in DOMAIN x.m |-> Encode(x.m[k])])

\* The JSON texts that travel inside Go strings (function arguments).
TextObjQ == "{\"q\":\"x\"}"
TextObjEmpty == "{}"
TextNull == "null"
TextArr == "[1]"
TextBroken == "{not json"

\* []byte(s) read as JSON
ParseText(s) ==
    CASE s = TextObjQ     -> JObj([q |-> JStr("x")])
      [] s = TextObjEmpty -> JObj([k \in {} |-> JNull])
      [] s = TextNull     -> JNull
      [] s = TextArr      -> JArr(<<JNum(1)>>)
      [] OTHER            -> JInvalid

\* string(bytes) of a JSON text
FormatText(d) ==
    CASE d = JObj([q |-> JStr("x")])    -> TextObjQ
      [] d = JObj([k \in {} |-> JNull]) -> TextObjEmpty
      [] d = JNull                      -> TextNull
      [] d = JArr(<<JNum(1)>>)          -> TextArr
      [] OTHER                          -> "?"

(***************************************************************************)
(* Character strings.                                                      *)
(***************************************************************************)
LowerOf == [A |-> "a", B |-> "b", C |-> "c", D |-> "d", E |-> "e", F |-> "f",
            G |-> "g", H |-> "h", I |-> "i", J |-> "j", K |-> "k", L |-> "l",
            M |-> "m", N |-> "n", O |-> "o", P |-> "p", Q |-> "q", R |-> "r",
            S |-> "s", T |-> "t", U |-> "u", V |-> "v", W |-> "w", X |-> "x",
            Y |-> "y", Z |-> "z"]

\* strings.ToLower
ToLower(s) == [i \in 1..Len(s) |-> IF s[i] \in DOMAIN LowerOf THEN LowerOf[s[i]] ELSE s[i]]

\* strings.Contains
Contains(s, sub) ==
    \E i \in 0..(Len(s) - Len(sub)) : SubSeq(s, i + 1, i + Len(sub)) = sub

\* strings.TrimRight(s, "/")
RECURSIVE TrimRightSlash(_)
TrimRightSlash(s) ==
    IF Len(s) > 0 /\ s[Len(s)] = "/" THEN TrimRightSlash(SubSeq(s, 1, Len(s) - 1)) ELSE s

FragGroq == <<"g", "r", "o", "q", ".", "c", "o", "m">>
FragOpenRouter == <<"o", "p", "e", "n", "r", "o", "u", "t", "e", "r", ".", "a", "i">>
FragOpenAI == <<"a", "p", "i", ".", "o", "p", "e", "n", "a", "i", ".", "c", "o", "m">>
FragFireworks == <<"f", "i", "r", "e", "w", "o", "r", "k", "s", ".", "a", "i">>
FragHuggingFace == <<"h", "u", "g", "g", "i", "n", "g", "f", "a", "c", "e", ".", "c", "o">>
FragAnthropic == <<"a", "n", "t", "h", "r", "o", "p", "i", "c", ".", "c", "o", "m">>
PathCompletions == <<"/", "c", "h", "a", "t", "/", "c", "o", "m", "p", "l", "e", "t", "i", "o", "n", "s">>

\* Variant: the URL is matched as written, without lower-casing
detectProvider_CaseSensitive(baseURL) ==
    LET u == baseURL IN
    IF Contains(u, FragGroq) THEN "groq"
    ELSE IF Contains(u, FragOpenRouter) THEN "openrouter"
    ELSE IF Contains(u, FragOpenAI) THEN "openai"
    ELSE IF Contains(u, FragFireworks) THEN "fireworks"
    ELSE IF Contains(u, FragHuggingFace) THEN "huggingface"
    ELSE IF Contains(u, FragAnthropic) THEN "anthropic"
    ELSE "openai-compatible"

detectProvider(baseURL) ==
    LET u == ToLower(baseURL) IN
    IF Contains(u, FragGroq) THEN "groq"
    ELSE IF Contains(u, FragOpenRouter) THEN "openrouter"
    ELSE IF Contains(u, FragOpenAI) THEN "openai"
    ELSE IF Contains(u, FragFireworks) THEN "fireworks"
    ELSE IF Contains(u, FragHuggingFace) THEN "huggingface"
    ELSE IF Contains(u, FragAnthropic) THEN "anthropic"
    ELSE "openai-compatible"

(***************************************************************************)
(* Typed values of the proxy package.                                      *)
(*   Message          [Role, Content]            Content is an interface{} *)
(*   Tool             [Name, Description, InputSchema]                     *)
(*   MessagesRequest  [Model, Messages, MaxTokens, Temperature, Tools,     *)
(*                     ToolChoice]   pointer fields: GoNil when nil        *)
(***************************************************************************)
ZeroReq == [Model |-> "", Messages |-> <<>>, MaxTokens |-> GoNil,
            Temperature |-> GoNil, Tools |-> <<>>, ToolChoice |-> GoNil]

\* A []map[string]interface{} stored in an interface{}: nil when never appended to
SliceVal(s) == IF Len(s) = 0 THEN GoNilSlice ELSE GoArr(s)

\* Variant: successive text blocks are joined with a line break
RECURSIVE FoldBlocks_Separated(_, _, _)
FoldBlocks_Separated(blocks, i, acc) ==
    IF i > Len(blocks) THEN acc
    ELSE LET blk == blocks[i]
             b == AsMap(blk)
             t == StrOf(Get(b, "type"))
             next ==
                 IF ~IsMap(blk) THEN acc
                 ELSE CASE t = "text" ->
                            IF IsStr(Get(b, "text"))
                            THEN [acc EXCEPT !.textAcc =
                                    IF @ = "" THEN Get(b, "text").s
                                    ELSE @ \o "\n" \o Get(b, "text").s]
                            ELSE acc
                        [] t = "tool_use" ->
                            [acc EXCEPT !.tcalls = Append(@, GoMap(
                                [id |-> GoStr(StrOf(Get(b, "id"))),
                                 type |-> GoStr("function"),
                                 function |-> GoMap(
                                    [name |-> GoStr(StrOf(Get(b, "name"))),
                                     arguments |-> GoStr(FormatText(Encode(Get(b, "input"))))])]))]
                        [] t = "tool_result" ->
                            [acc EXCEPT !.toolsRes = Append(@, GoMap(
                                [role |-> GoStr("tool"),
                                 content |-> Get(b, "content"),
                                 tool_call_id |-> Get(b, "tool_use_id")]))]
                        [] OTHER -> acc
         IN FoldBlocks_Separated(blocks, i + 1, next)

\* The inner loop of convertMessages over the blocks of one message.
RECURSIVE FoldBlocks(_, _, _)
FoldBlocks(blocks, i, acc) ==
    IF i > Len(blocks) THEN acc
    ELSE LET blk == blocks[i]
             b == AsMap(blk)
             t == StrOf(Get(b, "type"))
             next ==
                 IF ~IsMap(blk) THEN acc
                 ELSE CASE t = "text" ->
                            IF IsStr(Get(b, "text"))
                            THEN [acc EXCEPT !.textAcc = @ \o Get(b, "text").s]
                            ELSE acc
                        [] t = "tool_use" ->
                            [acc EXCEPT !.tcalls = Append(@, GoMap(
                                [id |-> GoStr(StrOf(Get(b, "id"))),
                                 type |-> GoStr("function"),
                                 function |-> GoMap(
                                    [name |-> GoStr(StrOf(Get(b, "name"))),
                                     arguments |-> GoStr(FormatText(Encode(Get(b, "input"))))])]))]
                        [] t = "tool_result" ->
                            [acc EXCEPT !.toolsRes = Append(@, GoMap(
                                [role |-> GoStr("tool"),
                                 content |-> Get(b, "content"),
                                 tool_call_id |-> Get(b, "tool_use_id")]))]
                        [] OTHER -> acc
         IN FoldBlocks(blocks, i + 1, next)

\* Variant: the tool results are appended before the combined message
convertMessage_ResultsFirst(msg) ==
    CASE msg.Content.t = "string" ->
            <<GoMap([role |-> GoStr(msg.Role), content |-> msg.Content])>>
      [] msg.Content.t = "slice" ->
            LET f == FoldBlocks(msg.Content.a, 1,
                                [textAcc |-> "", tcalls |-> <<>>, toolsRes |-> <<>>])
                entry == IF Len(f.tcalls) > 0
                         THEN [role |-> GoStr(msg.Role), content |-> GoStr(f.textAcc),
                               tool_calls |-> GoArr(f.tcalls)]
                         ELSE [role |-> GoStr(msg.Role), content |-> GoStr(f.textAcc)]
            IN f.toolsRes
               \o (IF f.textAcc # "" \/ Len(f.tcalls) > 0 THEN <<GoMap(entry)>> ELSE <<>>)
      [] OTHER -> <<>>

\* What convertMessages appends to out for one message.
convertMessage(msg) ==
    CASE msg.Content.t = "string" ->
            <<GoMap([role |-> GoStr(msg.Role), content |-> msg.Content])>>
      [] msg.Content.t = "slice" ->
            LET f == FoldBlocks(msg.Content.a, 1,
                                [textAcc |-> "", tcalls |-> <<>>, toolsRes |-> <<>>])
                entry == IF Len(f.tcalls) > 0
                         THEN [role |-> GoStr(msg.Role), content |-> GoStr(f.textAcc),
                               tool_calls |-> GoArr(f.tcalls)]
                         ELSE [role |-> GoStr(msg.Role), content |-> GoStr(f.textAcc)]
            IN (IF f.textAcc # "" \/ Len(f.tcalls) > 0 THEN <<GoMap(entry)>> ELSE <<>>)
               \o f.toolsRes
      [] OTHER -> <<>>

RECURSIVE convertMessages(_)
convertMessages(msgs) ==
    IF Len(msgs) = 0 THEN <<>>
    ELSE convertMessages(SubSeq(msgs, 1, Len(msgs) - 1)) \o convertMessage(msgs[Len(msgs)])

convertToolsForProvider(tools, provider) ==
    [i \in 1..Len(tools) |->
        IF provider = "groq"
        THEN GoMap([name |-> GoStr(tools[i].Name),
                    description |-> GoStr(tools[i].Description),
                    parameters |-> tools[i].InputSchema])
        ELSE GoMap([type |-> GoStr("function"),
                    function |-> GoMap([name |-> GoStr(tools[i].Name),
                                        description |-> GoStr(tools[i].Description),
                                        parameters |-> tools[i].InputSchema])])]

\* Variant: an override always replaces the ceiling
effectiveMaxTokens_OverrideWins(ceiling, override) ==
    IF override # GoNil THEN override.n ELSE ceiling

\* maxT of processRequest
effectiveMaxTokens(ceiling, override) ==
    IF override # GoNil /\ override.n < ceiling THEN override.n ELSE ceiling

\* Variant: the directive of the request is not looked at
toolKeys_AlwaysAuto(toolsOrFuncs, provider, toolChoice) ==
    IF Len(toolsOrFuncs) > 0
    THEN IF provider = "groq"
         THEN [functions |-> GoArr(toolsOrFuncs), function_call |-> GoStr("auto")]
         ELSE [tools |-> GoArr(toolsOrFuncs), tool_choice |-> GoStr("auto")]
    ELSE EmptyFcn

\* Variant: the declarations always go out under functions / function_call
toolKeys_AlwaysFunctions(toolsOrFuncs, provider, toolChoice) ==
    IF Len(toolsOrFuncs) > 0
    THEN [functions |-> GoArr(toolsOrFuncs),
          function_call |-> IF toolChoice # GoNil THEN toolChoice ELSE GoStr("auto")]
    ELSE EmptyFcn

\* The tool keys processRequest adds to the payload.
toolKeys(toolsOrFuncs, provider, toolChoice) ==
    IF Len(toolsOrFuncs) > 0
    THEN IF provider = "groq"
         THEN [functions |-> GoArr(toolsOrFuncs),
               function_call |-> IF toolChoice # GoNil THEN toolChoice ELSE GoStr("auto")]
         ELSE [tools |-> GoArr(toolsOrFuncs),
               tool_choice |-> IF toolChoice # GoNil THEN toolChoice ELSE GoStr("auto")]
    ELSE EmptyFcn

\* payload of processRequest
buildPayload(req, provider, ceiling) ==
    LET msgs == convertMessages(req.Messages)
        toolsOrFuncs == IF Len(req.Tools) > 0
                        THEN convertToolsForProvider(req.Tools, provider)
                        ELSE <<>>
        maxT == effectiveMaxTokens(ceiling, req.MaxTokens)
    IN GoMap([model |-> GoStr(req.Model),
              messages |-> SliceVal(msgs),
              temperature |-> req.Temperature,
              max_tokens |-> GoInt(maxT)]
             @@ toolKeys(toolsOrFuncs, provider, req.ToolChoice))

(***************************************************************************)
(* Result classification (processRequest after the upstream replied).      *)
(***************************************************************************)
\* fmt's %v of an interface{} value
FmtV(x) ==
    CASE x.t = "string"  -> x.s
      [] x.t = "nil"     -> "<nil>"
      [] x.t = "float64" -> ToString(x.n)
      [] OTHER           -> "map[...]"

\* Variant: an error key holding null does not count
hasProviderError_NonNil(ocRes) == Get(ocRes, "error") # GoNil

\* Variant: the error key counts only when the body carries no choices
hasProviderError_UnlessChoices(ocRes) == Has(ocRes, "error") /\ ~Has(ocRes, "choices")

\* _, exists := ocRes["error"]
hasProviderError(ocRes) == Has(ocRes, "error")

\* The error processRequest returns when ocRes has the key "error"
providerErrorText(ocRes) ==
    LET errRaw == Get(ocRes, "error") IN
    IF IsMap(errRaw)
    THEN "OpenAI API error: " \o FmtV(Get(errRaw, "message"))
    ELSE "OpenAI API error: " \o FmtV(errRaw)

\* message of processRequest: the first choice's message, the nil map without one
firstMessage(ocRes) ==
    LET choices == ArrOf(Get(ocRes, "choices")) IN
    IF Len(choices) > 0
    THEN AsMap(Get(AsMap(choices[1]), "message"))
    ELSE GoNilMap

\* args := map[string]interface{}{}; if s, ok := holder["arguments"].(string); ok
\* { json.Unmarshal([]byte(s), &args) }
decodeArguments(holder) ==
    LET a == Get(holder, "arguments") IN
    IF IsStr(a)
    THEN UnmarshalMap(ParseText(a.s), GoMap(EmptyFcn)).val
    ELSE GoMap(EmptyFcn)

\* Variant: every block gets a fresh identifier
RECURSIVE toolCallBlocks_FreshIds(_, _, _, _)
toolCallBlocks_FreshIds(toolCalls, i, ids, next) ==
    IF i > Len(toolCalls) THEN [blocks |-> <<>>, next |-> next]
    ELSE LET tcMap == AsMap(toolCalls[i])
             funcData == AsMap(Get(tcMap, "function"))
             block == GoMap([type |-> GoStr("tool_use"),
                             id |-> GoStr(ids[next]),
                             name |-> Get(funcData, "name"),
                             input |-> decodeArguments(funcData)])
             rest == toolCallBlocks_FreshIds(toolCalls, i + 1, ids, next + 1)
         IN [blocks |-> <<block>> \o rest.blocks, next |-> rest.next]

\* The loop over toolCalls; ids are the values uuid.New() returns from index
\* next on.  Returns the blocks appended and the next unused index.
RECURSIVE toolCallBlocks(_, _, _, _)
toolCallBlocks(toolCalls, i, ids, next) ==
    IF i > Len(toolCalls) THEN [blocks |-> <<>>, next |-> next]
    ELSE LET tcMap == AsMap(toolCalls[i])
             funcData == AsMap(Get(tcMap, "function"))
             given == StrOf(Get(tcMap, "id"))
             toolID == IF given = "" THEN ids[next] ELSE given
             block == GoMap([type |-> GoStr("tool_use"),
                             id |-> GoStr(toolID),
                             name |-> Get(funcData, "name"),
                             input |-> decodeArguments(funcData)])
             rest == toolCallBlocks(toolCalls, i + 1, ids,
                                    IF given = "" THEN next + 1 ELSE next)
         IN [blocks |-> <<block>> \o rest.blocks, next |-> rest.next]

\* Variant: tool is looked at before function_call
legacyCall_ToolFirst(message) ==
    IF IsMap(Get(message, "tool")) THEN Get(message, "tool")
    ELSE IF IsMap(Get(message, "function_call")) THEN Get(message, "function_call")
    ELSE GoNilMap

\* fc of processRequest: function_call first, then tool; the nil map when
\* neither is an object
legacyCall(message) ==
    IF IsMap(Get(message, "function_call")) THEN Get(message, "function_call")
    ELSE IF IsMap(Get(message, "tool")) THEN Get(message, "tool")
    ELSE GoNilMap

\* Variant: the text that comes with a tool call is kept as a leading text block
classifyResult_KeepText(ocRes, ids, next) ==
    LET message == firstMessage(ocRes)
        toolCalls == Get(message, "tool_calls")
        fc == legacyCall(message)
        lead == IF StrOf(Get(message, "content")) = "" THEN <<>>
                ELSE <<GoMap([type |-> GoStr("text"),
                              text |-> GoStr(StrOf(Get(message, "content")))])>>
    IN IF IsArr(toolCalls) /\ Len(toolCalls.a) > 0
       THEN LET r == toolCallBlocks(toolCalls.a, 1, ids, next)
            IN [content |-> lead \o r.blocks, stopReason |-> "tool_use", next |-> r.next]
       ELSE IF fc # GoNilMap
       THEN [content |-> lead \o <<GoMap([type |-> GoStr("tool_use"),
                                          id |-> GoStr(ids[next]),
                                          name |-> Get(fc, "name"),
                                          input |-> decodeArguments(fc)])>>,
             stopReason |-> "tool_use", next |-> next + 1]
       ELSE [content |-> <<GoMap([type |-> GoStr("text"),
                                  text |-> GoStr(StrOf(Get(message, "content")))])>>,
             stopReason |-> "end_turn", next |-> next]

\* Variant: no text block when the message has no text
classifyResult_OmitEmptyText(ocRes, ids, next) ==
    LET message == firstMessage(ocRes)
        toolCalls == Get(message, "tool_calls")
        fc == legacyCall(message)
    IN IF IsArr(toolCalls) /\ Len(toolCalls.a) > 0
       THEN LET r == toolCallBlocks(toolCalls.a, 1, ids, next)
            IN [content |-> r.blocks, stopReason |-> "tool_use", next |-> r.next]
       ELSE IF fc # GoNilMap
       THEN [content |-> <<GoMap([type |-> GoStr("tool_use"),
                                  id |-> GoStr(ids[next]),
                                  name |-> Get(fc, "name"),
                                  input |-> decodeArguments(fc)])>>,
             stopReason |-> "tool_use", next |-> next + 1]
       ELSE [content |-> IF StrOf(Get(message, "content")) = "" THEN <<>>
                         ELSE <<GoMap([type |-> GoStr("text"),
                                       text |-> GoStr(StrOf(Get(message, "content")))])>>,
             stopReason |-> "end_turn", next |-> next]

\* content and stopReason of processRequest
classifyResult(ocRes, ids, next) ==
    LET message == firstMessage(ocRes)
        toolCalls == Get(message, "tool_calls")
        fc == legacyCall(message)
    IN IF IsArr(toolCalls) /\ Len(toolCalls.a) > 0
       THEN LET r == toolCallBlocks(toolCalls.a, 1, ids, next)
            IN [content |-> r.blocks, stopReason |-> "tool_use", next |-> r.next]
       ELSE IF fc # GoNilMap
       THEN [content |-> <<GoMap([type |-> GoStr("tool_use"),
                                  id |-> GoStr(ids[next]),
                                  name |-> Get(fc, "name"),
                                  input |-> decodeArguments(fc)])>>,
             stopReason |-> "tool_use", next |-> next + 1]
       ELSE [content |-> <<GoMap([type |-> GoStr("text"),
                                  text |-> GoStr(StrOf(Get(message, "content")))])>>,
             stopReason |-> "end_turn", next |-> next]

\* ocRes["usage"].(map[string]interface{}) panics unless usage is an object
usagePanics(ocRes) == ~IsMap(Get(ocRes, "usage"))

\* usage of processRequest
buildUsage(ocRes) ==
    GoMap([input_tokens |-> Get(Get(ocRes, "usage"), "prompt_tokens"),
           output_tokens |-> Get(Get(ocRes, "usage"), "completion_tokens")])

\* The map processRequest returns
envelope(l) ==
    GoMap([id |-> GoStr("msg_" \o l.logID),
           model |-> GoStr(l.req.Model),
           role |-> GoStr("assistant"),
           type |-> GoStr("message"),
           content |-> GoArr(l.content),
           stop_reason |-> GoStr(l.stopReason),
           stop_sequence |-> GoNil,
           usage |-> l.usage])

\* The row of the INSERT INTO api_logs (the timestamp column is left out)
auditRow(l, baseURL) ==
    [id |-> l.logID,
     provider |-> baseURL,
     endpoint |-> l.endpoint,
     model |-> l.req.Model,
     request |-> l.body,
     response |-> l.data,
     status_code |-> l.status,
     error_message |-> "",
     prompt_tokens |-> NumOf(Get(l.usage, "input_tokens")),
     completion_tokens |-> NumOf(Get(l.usage, "output_tokens"))]

(***************************************************************************)
(* Responses as the caller sees them.                                      *)
(***************************************************************************)
NoText == [j |-> "none"]
NoResp == [status |-> 0, body |-> [kind |-> "none"]]
\* net/http recovers a panicking handler and closes the connection
Aborted == [status |-> 0, body |-> [kind |-> "aborted"]]
\* http.Error(w, text, code)
HttpError(code, text) == [status |-> code, body |-> [kind |-> "text", text |-> text]]
\* json.NewEncoder(w).Encode(res) with the implicit 200
HttpJSON(res) == [status |-> 200, body |-> [kind |-> "json", json |-> Encode(res)]]

ErrInvalidJSON == "invalid JSON"
ErrUnmarshal == "json: cannot unmarshal upstream body"
LogProviderError == "ERROR: OpenAI API error"
LogPersistFailed == "Failed to persist API log"

ZeroLoc == [req |-> ZeroReq, logID |-> "", provider |-> "", payload |-> GoNilMap,
            body |-> NoText, endpoint |-> <<>>, status |-> 0, data |-> NoText,
            ocRes |-> GoNilMap, content |-> <<>>, stopReason |-> "",
            usage |-> GoNilMap, next |-> 1]

Calls == DOMAIN pc

\* Variant: only a syntax error fails the decoding
decodeInbound_Lenient(b) ==
    IF b.kind = "request" THEN [err |-> FALSE, req |-> b.req]
    ELSE [err |-> b.kind = "syntax-error", req |-> ZeroReq]

\* json.NewDecoder(r.Body).Decode(&req)
decodeInbound(b) ==
    IF b.kind = "request" THEN [err |-> FALSE, req |-> b.req]
    ELSE [err |-> TRUE, req |-> ZeroReq]

(***************************************************************************)
(* The handler, one action per stage of a call.                            *)
(***************************************************************************)
\* ServeHTTP: the body does not decode
BadRequest ==
    \E c \in Calls :
        /\ pc[c] = "Received"
        /\ decodeInbound(inbound[c]).err
        /\ resp' = [resp EXCEPT ![c] = HttpError(400, ErrInvalidJSON)]
        /\ pc' = [pc EXCEPT ![c] = "BadRequest"]
        /\ UNCHANGED <<cfg, inbound, upstream, store, uuids, loc, wire, execs, db, oplog>>

\* ServeHTTP decodes the body; processRequest up to http.NewRequest
Translate ==
    \E c \in Calls :
        /\ pc[c] = "Received"
        /\ ~decodeInbound(inbound[c]).err
        /\ LET req == decodeInbound(inbound[c]).req
               provider == detectProvider(cfg.BaseURL)
               payload == buildPayload(req, provider, cfg.MaxTokens)
           IN loc' = [loc EXCEPT ![c] =
                        [@ EXCEPT !.req = req,
                                  !.logID = uuids[c][1],
                                  !.next = 2,
                                  !.provider = provider,
                                  !.payload = payload,
                                  !.body = Encode(payload),
                                  !.endpoint = TrimRightSlash(cfg.BaseURL) \o PathCompletions]]
        /\ pc' = [pc EXCEPT ![c] = "Translated"]
        /\ UNCHANGED <<cfg, inbound, upstream, store, uuids, wire, execs, db, oplog, resp>>

\* The request client.Do sends
outboundRequest(l) ==
    [method |-> "POST", url |-> l.endpoint,
     authorization |-> "Bearer " \o cfg.APIKey, body |-> l.body]

\* Variant: a failed client.Do is tried once more before the call gives up
DispatchFail_Retry ==
    \E c \in Calls :
        /\ pc[c] = "Translated"
        /\ upstream[c].kind = "transport-error"
        /\ wire' = [wire EXCEPT ![c] = Append(@, outboundRequest(loc[c]))]
        /\ IF Len(wire[c]) = 0
           THEN UNCHANGED <<resp, pc>>
           ELSE /\ resp' = [resp EXCEPT ![c] = HttpError(500, upstream[c].err)]
                /\ pc' = [pc EXCEPT ![c] = "UpstreamFailure"]
        /\ UNCHANGED <<cfg, inbound, upstream, store, uuids, loc, execs, db, oplog>>

\* client.Do fails: processRequest returns the error, ServeHTTP answers 500
DispatchFail ==
    \E c \in Calls :
        /\ pc[c] = "Translated"
        /\ upstream[c].kind = "transport-error"
        /\ wire' = [wire EXCEPT ![c] = Append(@, outboundRequest(loc[c]))]
        /\ resp' = [resp EXCEPT ![c] = HttpError(500, upstream[c].err)]
        /\ pc' = [pc EXCEPT ![c] = "UpstreamFailure"]
        /\ UNCHANGED <<cfg, inbound, upstream, store, uuids, loc, execs, db, oplog>>

\* client.Do returns a reply; io.ReadAll reads its body
Dispatch ==
    \E c \in Calls :
        /\ pc[c] = "Translated"
        /\ upstream[c].kind = "reply"
        /\ wire' = [wire EXCEPT ![c] = Append(@, outboundRequest(loc[c]))]
        /\ loc' = [loc EXCEPT ![c] = [@ EXCEPT !.status = upstream[c].status,
                                                !.data = upstream[c].data]]
        /\ pc' = [pc EXCEPT ![c] = "Dispatched"]
        /\ UNCHANGED <<cfg, inbound, upstream, store, uuids, execs, db, oplog, resp>>

\* Variant: an upstream body that does not decode is answered with 502
MalformedUpstream_BadGateway ==
    \E c \in Calls :
        /\ pc[c] = "Dispatched"
        /\ UnmarshalMap(loc[c].data, GoNilMap).err
        /\ resp' = [resp EXCEPT ![c] = HttpError(502, ErrUnmarshal)]
        /\ pc' = [pc EXCEPT ![c] = "UpstreamFailure"]
        /\ UNCHANGED <<cfg, inbound, upstream, store, uuids, loc, wire, execs, db, oplog>>

\* json.Unmarshal(data, &ocRes) fails: the error goes back, ServeHTTP answers 500
MalformedUpstream ==
    \E c \in Calls :
        /\ pc[c] = "Dispatched"
        /\ UnmarshalMap(loc[c].data, GoNilMap).err
        /\ resp' = [resp EXCEPT ![c] = HttpError(500, ErrUnmarshal)]
        /\ pc' = [pc EXCEPT ![c] = "UpstreamFailure"]
        /\ UNCHANGED <<cfg, inbound, upstream, store, uuids, loc, wire, execs, db, oplog>>

\* ocRes has the key "error": logged, returned as an error, answered with 500
ProviderError ==
    \E c \in Calls :
        /\ pc[c] = "Dispatched"
        /\ LET u == UnmarshalMap(loc[c].data, GoNilMap) IN
            /\ ~u.err
            /\ hasProviderError(u.val)
            /\ loc' = [loc EXCEPT ![c] = [@ EXCEPT !.ocRes = u.val]]
            /\ oplog' = [oplog EXCEPT ![c] = Append(@, LogProviderError)]
            /\ resp' = [resp EXCEPT ![c] = HttpError(500, providerErrorText(u.val))]
        /\ pc' = [pc EXCEPT ![c] = "UpstreamFailure"]
        /\ UNCHANGED <<cfg, inbound, upstream, store, uuids, wire, execs, db>>

\* No "error" key: the content blocks and the stop reason are built
Classify ==
    \E c \in Calls :
        /\ pc[c] = "Dispatched"
        /\ LET u == UnmarshalMap(loc[c].data, GoNilMap) IN
            /\ ~u.err
            /\ ~hasProviderError(u.val)
            /\ LET r == classifyResult(u.val, uuids[c], loc[c].next)
               IN loc' = [loc EXCEPT ![c] = [@ EXCEPT !.ocRes = u.val,
                                                       !.content = r.content,
                                                       !.stopReason = r.stopReason,
                                                       !.next = r.next]]
        /\ pc' = [pc EXCEPT ![c] = "Classified"]
        /\ UNCHANGED <<cfg, inbound, upstream, store, uuids, wire, execs, db, oplog, resp>>

\* The usage map literal: the unchecked type assertion panics
AssemblePanic ==
    \E c \in Calls :
        /\ pc[c] = "Classified"
        /\ usagePanics(loc[c].ocRes)
        /\ resp' = [resp EXCEPT ![c] = Aborted]
        /\ pc' = [pc EXCEPT ![c] = "Panicked"]
        /\ UNCHANGED <<cfg, inbound, upstream, store, uuids, loc, wire, execs, db, oplog>>

Assemble ==
    \E c \in Calls :
        /\ pc[c] = "Classified"
        /\ ~usagePanics(loc[c].ocRes)
        /\ loc' = [loc EXCEPT ![c] = [@ EXCEPT !.usage = buildUsage(loc[c].ocRes)]]
        /\ pc' = [pc EXCEPT ![c] = "Assembled"]
        /\ UNCHANGED <<cfg, inbound, upstream, store, uuids, wire, execs, db, oplog, resp>>

\* Variant: a failed INSERT is returned as the error of the call
LogFatal ==
    \E c \in Calls :
        /\ pc[c] = "Assembled"
        /\ store[c] # "hang"
        /\ LET row == auditRow(loc[c], cfg.BaseURL)
               errExec == store[c] # "accept" \/ (\E r \in db : r.id = row.id)
           IN /\ execs' = [execs EXCEPT ![c] = Append(@, row)]
              /\ IF errExec
                 THEN /\ oplog' = [oplog EXCEPT ![c] = Append(@, LogPersistFailed)]
                      /\ db' = db
                      /\ resp' = [resp EXCEPT ![c] = HttpError(500, LogPersistFailed)]
                      /\ pc' = [pc EXCEPT ![c] = "UpstreamFailure"]
                 ELSE /\ db' = db \cup {row}
                      /\ oplog' = oplog
                      /\ resp' = resp
                      /\ pc' = [pc EXCEPT ![c] = "Logged"]
        /\ UNCHANGED <<cfg, inbound, upstream, store, uuids, loc, wire>>

\* p.db.Exec(INSERT ...): id is the primary key; a failure is only logged
Log ==
    \E c \in Calls :
        /\ pc[c] = "Assembled"
        /\ store[c] # "hang"
        /\ LET row == auditRow(loc[c], cfg.BaseURL)
               errExec == store[c] # "accept" \/ (\E r \in db : r.id = row.id)
           IN IF errExec
              THEN /\ oplog' = [oplog EXCEPT ![c] = Append(@, LogPersistFailed)]
                   /\ db' = db
                   /\ execs' = [execs EXCEPT ![c] = Append(@, row)]
              ELSE /\ db' = db \cup {row}
                   /\ oplog' = oplog
                   /\ execs' = [execs EXCEPT ![c] = Append(@, row)]
        /\ pc' = [pc EXCEPT ![c] = "Logged"]
        /\ UNCHANGED <<cfg, inbound, upstream, store, uuids, loc, wire, resp>>

\* p.db.Exec is called and does not return: the handler stays inside it
LogBlocked ==
    \E c \in Calls :
        /\ pc[c] = "Assembled"
        /\ store[c] = "hang"
        /\ execs[c] = <<>>
        /\ execs' = [execs EXCEPT ![c] = Append(@, auditRow(loc[c], cfg.BaseURL))]
        /\ UNCHANGED <<cfg, inbound, upstream, store, uuids, pc, loc, wire, db, oplog, resp>>

\* Variant: the envelope goes out only if the row of the call is in the table
Respond_IfStored ==
    \E c \in Calls :
        /\ pc[c] = "Logged"
        /\ resp' = [resp EXCEPT ![c] =
                       IF execs[c][1] \in db /\ (\A d \in Calls \ {c} : execs[d] # execs[c])
                       THEN HttpJSON(envelope(loc[c]))
                       ELSE HttpError(500, LogPersistFailed)]
        /\ pc' = [pc EXCEPT ![c] = "Done"]
        /\ UNCHANGED <<cfg, inbound, upstream, store, uuids, loc, wire, execs, db, oplog>>

\* processRequest returns the envelope; ServeHTTP encodes it
Respond ==
    \E c \in Calls :
        /\ pc[c] = "Logged"
        /\ resp' = [resp EXCEPT ![c] = HttpJSON(envelope(loc[c]))]
        /\ pc' = [pc EXCEPT ![c] = "Done"]
        /\ UNCHANGED <<cfg, inbound, upstream, store, uuids, loc, wire, execs, db, oplog>>

Next ==
    \/ BadRequest
    \/ Translate
    \/ DispatchFail
    \/ Dispatch
    \/ MalformedUpstream
    \/ ProviderError
    \/ Classify
    \/ AssemblePanic
    \/ Assemble
    \/ Log
    \/ LogBlocked
    \/ Respond

(***************************************************************************)
(* Inputs: configurations, inbound bodies, upstream behaviours.            *)
(***************************************************************************)
MaxUrlParts == 3
MaxTools == 2
MaxToolCalls == 2

SeqsUpTo(S, n) == UNION {[1..k -> S] : k \in 0..n}
SeqsFromTo(S, m, n) == UNION {[1..k -> S] : k \in m..n}

RECURSIVE Concat(_)
Concat(parts) ==
    IF Len(parts) = 0 THEN <<>>
    ELSE Concat(SubSeq(parts, 1, Len(parts) - 1)) \o parts[Len(parts)]

PieceHttps == <<"h", "t", "t", "p", "s", ":", "/", "/">>
PieceApi == <<"a", "p", "i", ".">>
PieceGroqUpper == <<"G", "R", "O", "Q", ".", "C", "o", "m">>
PieceOpenAIBare == <<"o", "p", "e", "n", "a", "i", ".", "c", "o", "m">>
PieceExample == <<"e", "x", "a", "m", "p", "l", "e", ".", "o", "r", "g">>
PieceV1 == <<"/", "v", "1", "/">>

UrlPieces == {PieceHttps, PieceApi, FragGroq, PieceGroqUpper, FragOpenRouter,
              PieceOpenAIBare, FragFireworks, FragHuggingFace, FragAnthropic,
              PieceExample, PieceV1}

\* Base URLs: every concatenation of one to MaxUrlParts pieces
BaseURLs == {Concat(p) : p \in SeqsFromTo(UrlPieces, 1, MaxUrlParts)}

URLGroq == Concat(<<PieceHttps, PieceApi, FragGroq, PieceV1>>)
URLOpenRouter == Concat(<<PieceHttps, FragOpenRouter, PieceV1>>)
URLOther == Concat(<<PieceHttps, PieceExample>>)

Config(url, ceiling) == [BaseURL |-> url, APIKey |-> "sk-test", MaxTokens |-> ceiling]
\* LoadConfig's default ceiling
DefaultMaxTokens == 16384
CfgBase == Config(URLOpenRouter, DefaultMaxTokens)
DispatchCfgs == {Config(u, m) : u \in {URLGroq, URLOpenRouter, URLOther},
                                m \in {DefaultMaxTokens, 1000}}
UrlCfgs == {Config(u, DefaultMaxTokens) : u \in BaseURLs}

\* Inbound bodies
Malformed == [kind |-> "syntax-error"]
Request(r) == [kind |-> "request", req |-> r]

TextMsg == [Role |-> "user", Content |-> GoStr("hi")]
BlockMsg == [Role |-> "assistant",
             Content |-> GoArr(<<
                 GoMap([type |-> GoStr("text"), text |-> GoStr("see ")]),
                 GoMap([type |-> GoStr("tool_use"), id |-> GoStr("t1"),
                        name |-> GoStr("lookup"),
                        input |-> GoMap([q |-> GoStr("x")])])>>)]

ToolLookup == [Name |-> "lookup", Description |-> "find it",
               InputSchema |-> GoMap([type |-> GoStr("object")])]
ToolCalc == [Name |-> "calc", Description |-> "", InputSchema |-> GoNilMap]

SimpleReq == [Model |-> "m1", Messages |-> <<TextMsg>>, MaxTokens |-> GoNil,
              Temperature |-> GoNil, Tools |-> <<>>, ToolChoice |-> GoNil]

RichReqs ==
    {[Model |-> "m1", Messages |-> ms, MaxTokens |-> mt, Temperature |-> tp,
      Tools |-> ts, ToolChoice |-> tc] :
        ms \in {<<TextMsg>>, <<TextMsg, BlockMsg>>},
        mt \in {GoNil, GoInt(0), GoInt(2000), GoInt(16384), GoInt(99999)},
        tp \in {GoNil},
        ts \in SeqsUpTo({ToolLookup, ToolCalc}, MaxTools),
        tc \in {GoNil, GoStr("none"), GoMap([type |-> GoStr("any")])}}

CoverInbounds == {Malformed, [kind |-> "type-mismatch"], Request(SimpleReq)}
RichInbounds ==
    {Request(r) : r \in RichReqs}
    \cup {Request([SimpleReq EXCEPT !.Temperature = GoNum(1)])}

\* Upstream behaviours
TransportError == [kind |-> "transport-error", err |-> "dial tcp: connection refused"]
Reply(status, data) == [kind |-> "reply", status |-> status, data |-> data]

NoFields == [k \in {} |-> JNull]
OptField(k, vals) == {NoFields} \cup {(k :> v) : v \in vals}

TCGood == JObj([id |-> JStr("call_1"), type |-> JStr("function"),
                function |-> JObj([name |-> JStr("lookup"), arguments |-> JStr(TextObjQ)])])
TCBroken == JObj([id |-> JStr("call_2"), type |-> JStr("function"),
                  function |-> JObj([name |-> JStr("calc"), arguments |-> JStr(TextBroken)])])
TCNullNoId == JObj([type |-> JStr("function"),
                    function |-> JObj([name |-> JStr("lookup"), arguments |-> JStr(TextNull)])])
TCArr == JObj([id |-> JStr("call_4"), type |-> JStr("function"),
               function |-> JObj([name |-> JStr("calc"), arguments |-> JStr(TextArr)])])
ToolCallDocs == {TCGood, TCBroken, TCNullNoId, TCArr}

FCGood == JObj([name |-> JStr("legacy_fn"), arguments |-> JStr(TextObjQ)])
FCBroken == JObj([name |-> JStr("legacy_fn"), arguments |-> JStr(TextBroken)])
ToolGood == JObj([name |-> JStr("tool_fn"), arguments |-> JStr(TextObjEmpty)])
ToolNull == JObj([name |-> JStr("tool_fn"), arguments |-> JStr(TextNull)])

MessageDocs ==
    {JObj(a @@ b @@ c @@ d) :
        a \in OptField("content", {JStr("hi")}),
        b \in OptField("tool_calls",
                       {JNull} \cup {JArr(s) : s \in SeqsUpTo(ToolCallDocs, MaxToolCalls)}),
        c \in OptField("function_call", {JNull, FCGood, FCBroken}),
        d \in OptField("tool", {ToolGood, ToolNull})}

UsageFull == JObj([prompt_tokens |-> JNum(7), completion_tokens |-> JNum(3)])
UsageDocs == {UsageFull,
              JObj([completion_tokens |-> JNum(3)]),
              JObj([prompt_tokens |-> JNum(7), completion_tokens |-> JStr("3")]),
              JStr("n/a")}

ErrorObj == JObj([message |-> JStr("rate limited"), type |-> JStr("rate_limit"),
                  code |-> JNum(429)])

TextChoice == JArr(<<JObj([message |-> JObj([content |-> JStr("hi")])])>>)
ToolChoiceDoc == JArr(<<JObj([message |-> JObj([content |-> JStr("hi"),
                                                 tool_calls |-> JArr(<<TCGood>>)])])>>)

\* Bodies that are JSON objects
BodyDocs ==
    {JObj(e @@ ch @@ u) :
        e \in OptField("error", {ErrorObj}),
        ch \in OptField("choices", {JArr(<<>>)} \cup {JArr(<<JObj([message |-> m])>>) : m \in MessageDocs}),
        u \in OptField("usage", UsageDocs)}

OddBodies ==
    {JInvalid, JNull, JArr(<<>>), JStr("oops"),
     JObj([error |-> JStr("overloaded"), choices |-> TextChoice, usage |-> UsageFull]),
     JObj([error |-> JNull, choices |-> TextChoice, usage |-> UsageFull]),
     JObj([error |-> JNum(7), choices |-> TextChoice, usage |-> UsageFull]),
     JObj([error |-> JObj([code |-> JNum(500)])]),
     JObj([choices |-> JStr("none"), usage |-> UsageFull]),
     JObj([choices |-> JArr(<<JStr("none")>>), usage |-> UsageFull]),
     JObj([choices |-> JArr(<<JObj([message |-> JStr("hi")])>>), usage |-> UsageFull]),
     JObj([choices |-> JArr(<<JObj([message |-> JObj([content |-> JNum(5)])])>>),
           usage |-> UsageFull]),
     JObj([choices |-> JArr(<<JObj([message |-> JObj([content |-> JNull,
                                                      function_call |-> JStr("none")])])>>),
           usage |-> UsageFull])}

RichUpstreams ==
    {TransportError}
    \cup {Reply(200, d) : d \in BodyDocs \cup OddBodies}
    \cup {Reply(429, JObj([error |-> ErrorObj])),
          Reply(500, JObj([choices |-> TextChoice, usage |-> UsageFull])),
          Reply(502, JInvalid)}

CoverUpstreams ==
    {TransportError,
     Reply(502, JInvalid),
     Reply(429, JObj([error |-> ErrorObj])),
     Reply(200, JObj([choices |-> TextChoice, usage |-> UsageFull])),
     Reply(200, JObj([choices |-> ToolChoiceDoc, usage |-> UsageFull])),
     Reply(200, JObj([choices |-> TextChoice]))}

\* uuid.New().String()[:12], as often as one call can ask for it
UuidStream(p) == [i \in 1..(1 + MaxToolCalls) |-> p \o ToString(i)]

InitWith(callSet, cfgs, inbounds, upstreams, stores, streams) ==
    /\ cfg \in cfgs
    /\ inbound \in [callSet -> inbounds]
    /\ upstream \in [callSet -> upstreams]
    /\ store \in [callSet -> stores]
    /\ uuids \in [callSet -> streams]
    /\ pc = [c \in callSet |-> "Received"]
    /\ loc = [c \in callSet |-> ZeroLoc]
    /\ wire = [c \in callSet |-> <<>>]
    /\ execs = [c \in callSet |-> <<>>]
    /\ db = {}
    /\ oplog = [c \in callSet |-> <<>>]
    /\ resp = [c \in callSet |-> NoResp]

\* Two calls handled concurrently by one ChatProxy
Init ==
    InitWith({"c1", "c2"}, {CfgBase}, CoverInbounds \ {Malformed}, CoverUpstreams,
             {"accept", "reject", "hang"}, {UuidStream("a"), UuidStream("b")})

Spec == Init /\ [][Next]_vars

OkReply == Reply(200, JObj([choices |-> TextChoice, usage |-> UsageFull]))

\* A single call that can take every exit of the handler
InitCover ==
    InitWith({"c1"}, {CfgBase}, CoverInbounds, CoverUpstreams,
             {"accept", "reject", "hang"}, {UuidStream("a")})

\* One call, every shape of upstream reply
InitClassify ==
    \/ InitWith({"c1"}, {CfgBase}, {Request(SimpleReq)}, RichUpstreams,
                {"accept", "reject"}, {UuidStream("a")})
    \/ InitCover

SpecClassify == InitClassify /\ [][Next]_vars

\* One call, every shape of request and the configurations that change the payload
InitTranslate ==
    \/ InitWith({"c1"}, DispatchCfgs, RichInbounds, {OkReply},
                {"accept"}, {UuidStream("a")})
    \/ InitCover

SpecTranslate == InitTranslate /\ [][Next]_vars

\* One call under every base URL
InitDetect ==
    \/ InitWith({"c1"}, UrlCfgs, {Request(SimpleReq)}, {OkReply},
                {"accept"}, {UuidStream("a")})
    \/ InitCover

SpecDetect == InitDetect /\ [][Next]_vars

\* A tool_use block as the client writes it: identifier, name and the JSON
\* text of its input
ToolUseSpecs == [id : {"t1", "t2", ""}, name : {"lookup", "calc"},
                 args : {TextObjQ, TextObjEmpty}]
ToolUseBlock(s) ==
    GoMap([type |-> GoStr("tool_use"), id |-> GoStr(s.id), name |-> GoStr(s.name),
           input |-> Dec(ParseText(s.args))])
\* The tool_calls entry an upstream sends back for it
EchoCall(s) ==
    JObj([id |-> JStr(s.id), type |-> JStr("function"),
          function |-> JObj([name |-> JStr(s.name), arguments |-> JStr(s.args)])])
LeadText == GoMap([type |-> GoStr("text"), text |-> GoStr("see ")])

ToolUseReq(lead, ss) ==
    [SimpleReq EXCEPT !.Messages =
        <<TextMsg, [Role |-> "assistant",
                    Content |-> GoArr(lead \o [i \in 1..Len(ss) |-> ToolUseBlock(ss[i])])]>>]
EchoReply(ss) ==
    Reply(200, JObj([choices |-> JArr(<<JObj([message |->
                        JObj([content |-> JNull,
                              tool_calls |-> JArr([i \in 1..Len(ss) |-> EchoCall(ss[i])])])])>>),
                     usage |-> UsageFull]))

\* One call whose history ends in tool_use blocks, answered by an upstream
\* that sends the same tool calls back, or by a plain text reply
InitRoundTrip ==
    \/ \E ss \in SeqsFromTo(ToolUseSpecs, 1, MaxToolCalls), lead \in {<<>>, <<LeadText>>} :
          InitWith({"c1"}, {CfgBase}, {Request(ToolUseReq(lead, ss))},
                   {EchoReply(ss), OkReply}, {"accept"}, {UuidStream("a")})
    \/ InitCover

SpecRoundTrip == InitRoundTrip /\ [][Next]_vars

\* Bound on the blocks of one message
MaxBlocks == 3

\* The blocks a client can put into a message: the three kinds convertMessages
\* knows, and the ones it skips
BlkTextA == GoMap([type |-> GoStr("text"), text |-> GoStr("a")])
BlkTextEmpty == GoMap([type |-> GoStr("text"), text |-> GoStr("")])
BlkTextOdd == GoMap([type |-> GoStr("text"), text |-> GoNum(5)])
BlkUse == ToolUseBlock([id |-> "t1", name |-> "lookup", args |-> TextObjQ])
BlkResult1 == GoMap([type |-> GoStr("tool_result"), tool_use_id |-> GoStr("t1"),
                     content |-> GoStr("ok")])
BlkResult2 == GoMap([type |-> GoStr("tool_result"), tool_use_id |-> GoStr("t2"),
                     content |-> GoArr(<<BlkTextA>>)])
BlkImage == GoMap([type |-> GoStr("image")])
BlkRaw == GoStr("raw")
Blocks == {BlkTextA, BlkTextEmpty, BlkTextOdd, BlkUse, BlkResult1, BlkResult2, BlkImage, BlkRaw}

FoldMsg(bs) == [Role |-> "assistant", Content |-> GoArr(bs)]
ResultMsg == [Role |-> "user", Content |-> GoArr(<<BlkResult2, BlkTextA>>)]
FoldHistories ==
    UNION {{<<FoldMsg(bs)>>, <<TextMsg, FoldMsg(bs)>>, <<FoldMsg(bs), TextMsg>>,
            <<FoldMsg(bs), ResultMsg>>} : bs \in SeqsUpTo(Blocks, MaxBlocks)}

\* One call under every history of block messages
InitFold ==
    \/ InitWith({"c1"}, {CfgBase},
                {Request([SimpleReq EXCEPT !.Messages = h]) : h \in FoldHistories},
                {OkReply}, {"accept"}, {UuidStream("a")})
    \/ InitCover

SpecFold == InitFold /\ [][Next]_vars

\* Upstream replies that differ in the HTTP status only
StatusCodes == {200, 404, 503}
StatusBodies ==
    {JObj([choices |-> TextChoice, usage |-> UsageFull]),
     JObj([usage |-> UsageFull]),
     JObj([detail |-> JStr("not found")]),
     JObj([error |-> ErrorObj])}

\* Two calls with the same request under every pair of such replies
InitStatus ==
    \/ InitWith({"c1", "c2"}, {CfgBase}, {Request(SimpleReq)},
                {Reply(st, d) : st \in StatusCodes, d \in StatusBodies},
                {"accept"}, {UuidStream("a")})
    \/ InitCover

SpecStatus == InitStatus /\ [][Next]_vars

\* One call run to its end: the handler goroutine, once started, is
\* scheduled until it returns, panics or blocks
SpecLive == InitCover /\ [][Next]_vars /\ WF_vars(Next)

(***************************************************************************)
(* Properties.  They read the inputs of a call (inbound, upstream, store,  *)
(* uuids) and what the handler produced (resp, wire, execs, db, oplog,     *)
(* loc).                                                                   *)
(***************************************************************************)
Terminal == {"BadRequest", "UpstreamFailure", "Panicked", "Done"}
BeforeClassification == {"Received", "Translated", "Dispatched"}

\* The upstream body as sent, read as a JSON text
DocHas(d, k) == d.j = "object" /\ k \in DOMAIN d.o
RepliedObject(c) == upstream[c].kind = "reply" /\ upstream[c].data.j = "object"
ReplyHas(c, k) == upstream[c].kind = "reply" /\ DocHas(upstream[c].data, k)
ErrorObjectReply(c) == ReplyHas(c, "error") /\ upstream[c].data.o["error"].j = "object"

\* The message of the first choice in the body as sent; the empty object without one
RawMessage(c) ==
    LET d == upstream[c].data IN
    IF /\ ReplyHas(c, "choices")
       /\ d.o["choices"].j = "array"
       /\ Len(d.o["choices"].a) > 0
       /\ DocHas(d.o["choices"].a[1], "message")
       /\ d.o["choices"].a[1].o["message"].j = "object"
    THEN d.o["choices"].a[1].o["message"]
    ELSE JObj(NoFields)

RawToolCalls(c) ==
    LET m == RawMessage(c) IN
    IF DocHas(m, "tool_calls") /\ m.o["tool_calls"].j = "array"
    THEN m.o["tool_calls"].a ELSE <<>>

\* C1: an upstream body with a top-level error object, with or without
\* choices, ends the call as a Provider Error: the caller gets a 500 with a
\* plain-text body and the call never reaches classification or an envelope.
C1_ErrorPrecedence ==
    \A c \in Calls :
        (inbound[c].kind = "request" /\ ErrorObjectReply(c)) =>
            /\ pc[c] \in BeforeClassification \cup {"UpstreamFailure"}
            /\ resp[c].body.kind # "json"
            /\ pc[c] = "UpstreamFailure" =>
                   /\ resp[c].status = 500
                   /\ resp[c].body.kind = "text"
                   /\ LogProviderError \in {oplog[c][i] : i \in 1..Len(oplog[c])}

C1_Witness ==
    \E c \in Calls :
        /\ ErrorObjectReply(c)
        /\ Len(RawToolCalls(c)) > 0
        /\ DocHas(RawMessage(c), "content")
        /\ pc[c] = "UpstreamFailure"
        /\ resp[c].status = 500

\* C2: every call that ends in UpstreamFailure (transport error, upstream
\* body that is not JSON, Provider Error) has handed an audit row to the
\* store by the time it ends.
C2_AuditOnUpstreamFailure ==
    \A c \in Calls : pc[c] = "UpstreamFailure" => Len(execs[c]) > 0

\* Two calls that differ at most in what the audit store does
SameInputs(c, d) ==
    inbound[c] = inbound[d] /\ upstream[c] = upstream[d] /\ uuids[c] = uuids[d]

\* C3: two calls with the same request, the same upstream reply and the same
\* generated identifiers get the same status and body whatever the audit
\* store did with their INSERTs; a failed INSERT shows only in the operator log.
C3_AuditNonInterference ==
    /\ \A c, d \in Calls :
          (SameInputs(c, d) /\ pc[c] = "Done" /\ pc[d] \in Terminal) => resp[d] = resp[c]
    /\ \A c \in Calls :
          (pc[c] = "Done" /\ store[c] = "reject") =>
              /\ resp[c].status = 200
              /\ resp[c].body.kind = "json"
              /\ oplog[c] = <<LogPersistFailed>>
              /\ \A r \in db : r # execs[c][1] \/ (\E d \in Calls \ {c} : execs[d] = <<r>>)

C3_Witness ==
    \E c, d \in Calls :
        /\ c # d
        /\ SameInputs(c, d)
        /\ store[c] = "accept" /\ store[d] = "reject"
        /\ pc[c] = "Done" /\ pc[d] = "Done"
        /\ resp[c] = resp[d]
        /\ resp[d].status = 200
        /\ oplog[d] = <<LogPersistFailed>>
        /\ oplog[c] = <<>>

\* The upstream count under key k when it is a number, else zero
ExpectedTokens(c, k) ==
    LET d == upstream[c].data IN
    IF DocHas(d, "usage") /\ DocHas(d.o["usage"], k) /\ d.o["usage"].o[k].j = "number"
    THEN d.o["usage"].o[k].n
    ELSE 0

\* C4: a reply without an error key always ends in a 200 envelope whose
\* usage.input_tokens / usage.output_tokens are the upstream prompt_tokens /
\* completion_tokens when those are numbers and zero otherwise.
C4_TokenAccounting ==
    \A c \in Calls :
        (/\ inbound[c].kind = "request"
         /\ RepliedObject(c)
         /\ ~ReplyHas(c, "error")
         /\ pc[c] \in Terminal) =>
            /\ pc[c] = "Done"
            /\ resp[c].status = 200
            /\ resp[c].body.kind = "json"
            /\ resp[c].body.json.o["usage"].o["input_tokens"] = JNum(ExpectedTokens(c, "prompt_tokens"))
            /\ resp[c].body.json.o["usage"].o["output_tokens"] = JNum(ExpectedTokens(c, "completion_tokens"))

\* The stages at which content and stopReason are set
ClassifiedStates == {"Classified", "Assembled", "Logged", "Done", "Panicked"}
RawIsObject(m, k) == DocHas(m, k) /\ m.o[k].j = "object"

\* C5: the content blocks come from tool_calls when that is a non-empty
\* array, else from function_call when that is an object, else from tool
\* when that is an object, else they are one text block.
C5_ClassificationPrecedence ==
    \A c \in Calls :
        pc[c] \in ClassifiedStates =>
            LET m == RawMessage(c)
                tc == RawToolCalls(c)
                content == loc[c].content
            IN IF Len(tc) > 0
               THEN /\ Len(content) = Len(tc)
                    /\ \A i \in 1..Len(tc) :
                          /\ content[i].m["type"] = GoStr("tool_use")
                          /\ Encode(content[i].m["name"]) = tc[i].o["function"].o["name"]
                    /\ loc[c].stopReason = "tool_use"
               ELSE IF RawIsObject(m, "function_call")
               THEN /\ Len(content) = 1
                    /\ content[1].m["type"] = GoStr("tool_use")
                    /\ Encode(content[1].m["name"]) = m.o["function_call"].o["name"]
                    /\ loc[c].stopReason = "tool_use"
               ELSE IF RawIsObject(m, "tool")
               THEN /\ Len(content) = 1
                    /\ content[1].m["type"] = GoStr("tool_use")
                    /\ Encode(content[1].m["name"]) = m.o["tool"].o["name"]
                    /\ loc[c].stopReason = "tool_use"
               ELSE /\ Len(content) = 1
                    /\ content[1].m["type"] = GoStr("text")
                    /\ loc[c].stopReason = "end_turn"

C5_Witness ==
    \E c \in Calls :
        /\ Len(RawToolCalls(c)) = 2
        /\ RawIsObject(RawMessage(c), "function_call")
        /\ RawIsObject(RawMessage(c), "tool")
        /\ pc[c] = "Done"
        /\ Len(resp[c].body.json.o["content"].a) = 2
        /\ resp[c].body.json.o["content"].a[1].o["name"] \in {JStr("lookup"), JStr("calc")}

\* C6: a call whose body does not decode is answered with 400 "invalid
\* JSON"; it sends nothing to the upstream and hands nothing to the audit store.
C6_MalformedInbound ==
    \A c \in Calls :
        inbound[c].kind # "request" =>
            /\ wire[c] = <<>>
            /\ execs[c] = <<>>
            /\ pc[c] \in {"Received", "BadRequest"}
            /\ pc[c] = "BadRequest" =>
                   /\ resp[c].status = 400
                   /\ resp[c].body.kind = "text"
                   /\ resp[c].body.text = "invalid JSON"

C6_Witness ==
    \E c \in Calls :
        /\ inbound[c].kind # "request"
        /\ pc[c] = "BadRequest"
        /\ resp[c].status = 400
        /\ \E d \in Calls : pc[d] = "Done" /\ Len(wire[d]) = 1 /\ db # {}

\* The two tool conventions of the outbound payload
Translated(c) == pc[c] \notin {"Received", "BadRequest"}
LegacyKeys == {"functions", "function_call"}
ModernKeys == {"tools", "tool_choice"}
LegacyDoc(t) == JObj([name |-> JStr(t.Name), description |-> JStr(t.Description),
                      parameters |-> Encode(t.InputSchema)])
ModernDoc(t) == JObj([type |-> JStr("function"), function |-> LegacyDoc(t)])

\* C7: a request that declares tools goes out with functions / function_call
\* in the flat shape when the provider tag is groq and with tools /
\* tool_choice in the wrapped shape for any other tag; no payload carries
\* keys of both pairs.
C7_ProviderDispatch ==
    \A c \in Calls :
        Translated(c) =>
            LET sent == loc[c].body
                keys == DOMAIN sent.o
                tools == inbound[c].req.Tools
            IN /\ \A i \in 1..Len(wire[c]) : wire[c][i].body = sent
               /\ ~(keys \cap LegacyKeys # {} /\ keys \cap ModernKeys # {})
               /\ Len(tools) > 0 =>
                    IF loc[c].provider = "groq"
                    THEN /\ LegacyKeys \subseteq keys
                         /\ sent.o["functions"] = JArr([i \in 1..Len(tools) |-> LegacyDoc(tools[i])])
                    ELSE /\ ModernKeys \subseteq keys
                         /\ sent.o["tools"] = JArr([i \in 1..Len(tools) |-> ModernDoc(tools[i])])

C7_Witness ==
    \E c \in Calls :
        /\ cfg.BaseURL = URLGroq
        /\ inbound[c].kind = "request"
        /\ Len(inbound[c].req.Tools) = 2
        /\ Len(wire[c]) = 1
        /\ LegacyKeys \subseteq DOMAIN wire[c][1].body.o
        /\ Len(wire[c][1].body.o["functions"].a) = 2

\* The provider fragments in the order they are tried
ProviderTable ==
    << <<FragGroq, "groq">>, <<FragOpenRouter, "openrouter">>, <<FragOpenAI, "openai">>,
       <<FragFireworks, "fireworks">>, <<FragHuggingFace, "huggingface">>,
       <<FragAnthropic, "anthropic">> >>

LowerChar(ch) == IF ch \in DOMAIN LowerOf THEN LowerOf[ch] ELSE ch

OccursIgnoringCase(url, frag) ==
    \E i \in 1..(Len(url) - Len(frag) + 1) :
        \A k \in 1..Len(frag) : LowerChar(url[i + k - 1]) = frag[k]

ExpectedTag(url) ==
    LET hits == {i \in 1..Len(ProviderTable) : OccursIgnoringCase(url, ProviderTable[i][1])}
    IN IF hits = {} THEN "openai-compatible"
       ELSE ProviderTable[CHOOSE i \in hits : \A j \in hits : i <= j][2]

\* C8: the provider tag is the tag of the first fragment, in the order
\* groq.com, openrouter.ai, api.openai.com, fireworks.ai, huggingface.co,
\* anthropic.com, that occurs in the base URL regardless of letter case, and
\* openai-compatible when none occurs.
C8_DetectProvider ==
    \A c \in Calls : Translated(c) => loc[c].provider = ExpectedTag(cfg.BaseURL)

C8_Witness ==
    \E c \in Calls :
        /\ cfg.BaseURL = Concat(<<FragAnthropic, FragOpenRouter, PieceGroqUpper>>)
        /\ pc[c] = "Done"
        /\ loc[c].provider = "groq"

\* C9: max_tokens of the outbound payload is the smaller of the configured
\* ceiling and the inbound override, and the ceiling when there is no
\* override; it never exceeds the ceiling.
C9_MaxTokenClamp ==
    \A c \in Calls :
        Translated(c) =>
            LET override == inbound[c].req.MaxTokens
                ceiling == cfg.MaxTokens
                sent == loc[c].body.o["max_tokens"]
            IN /\ \A i \in 1..Len(wire[c]) : wire[c][i].body.o["max_tokens"] = sent
               /\ sent.j = "number"
               /\ sent.n <= ceiling
               /\ override = GoNil => sent.n = ceiling
               /\ override # GoNil =>
                    sent.n = IF override.n <= ceiling THEN override.n ELSE ceiling

C9_Witness ==
    \E c \in Calls :
        /\ inbound[c].kind = "request"
        /\ inbound[c].req.MaxTokens = GoInt(99999)
        /\ cfg.MaxTokens = 16384
        /\ Len(wire[c]) = 1
        /\ wire[c][1].body.o["max_tokens"] = JNum(16384)

\* The arguments string of a tool call holds the JSON text of an object
ArgsAreObject(holder) ==
    /\ DocHas(holder, "arguments")
    /\ holder.o["arguments"].j = "string"
    /\ ParseText(holder.o["arguments"].s).j = "object"

RawLegacy(c) ==
    LET m == RawMessage(c) IN
    IF RawIsObject(m, "function_call") THEN <<m.o["function_call"]>>
    ELSE IF RawIsObject(m, "tool") THEN <<m.o["tool"]>>
    ELSE <<>>

\* The argument holders of the tool calls the reply carries
RawHolders(c) ==
    IF Len(RawToolCalls(c)) > 0
    THEN [i \in 1..Len(RawToolCalls(c)) |-> RawToolCalls(c)[i].o["function"]]
    ELSE RawLegacy(c)

\* C10: a tool call whose arguments string is not the JSON text of an object
\* still gives a tool_use block with the empty object as input; every tool
\* call gives a block and the call ends with a 200 envelope and stop_reason
\* tool_use.
C10_MalformedArguments ==
    \A c \in Calls :
        (/\ inbound[c].kind = "request"
         /\ RepliedObject(c)
         /\ ~ReplyHas(c, "error")
         /\ ReplyHas(c, "usage") /\ upstream[c].data.o["usage"].j = "object"
         /\ Len(RawHolders(c)) > 0
         /\ pc[c] \in Terminal) =>
            /\ pc[c] = "Done"
            /\ resp[c].status = 200
            /\ resp[c].body.json.o["stop_reason"] = JStr("tool_use")
            /\ LET blocks == resp[c].body.json.o["content"].a
                   holders == RawHolders(c)
               IN /\ Len(blocks) = Len(holders)
                  /\ \A i \in 1..Len(holders) :
                        /\ blocks[i].o["type"] = JStr("tool_use")
                        /\ ~ArgsAreObject(holders[i]) => blocks[i].o["input"] = JObj(NoFields)

\* The tool_use blocks of a message content, in block order
ToolUses(content) ==
    SelectSeq(ArrOf(content), LAMBDA b : IsMap(b) /\ Get(b, "type") = GoStr("tool_use"))

\* The messages of the outbound payload as serialized
SentMessages(c) ==
    IF loc[c].body.o["messages"].j = "array" THEN loc[c].body.o["messages"].a ELSE <<>>

\* The JSON array T holds one descriptor per block of U, in order, with the
\* block's id and name and an arguments string that is the JSON text of its input
Describes(T, U) ==
    /\ T.j = "array"
    /\ Len(T.a) = Len(U)
    /\ \A i \in 1..Len(U) :
          /\ T.a[i].j = "object"
          /\ DOMAIN T.a[i].o = {"id", "type", "function"}
          /\ T.a[i].o["id"] = Encode(Get(U[i], "id"))
          /\ T.a[i].o["type"] = JStr("function")
          /\ T.a[i].o["function"].j = "object"
          /\ DOMAIN T.a[i].o["function"].o = {"name", "arguments"}
          /\ T.a[i].o["function"].o["name"] = Encode(Get(U[i], "name"))
          /\ T.a[i].o["function"].o["arguments"].j = "string"
          /\ ParseText(T.a[i].o["function"].o["arguments"].s) = Encode(Get(U[i], "input"))

\* The upstream's first message carries exactly the tool_calls array T
Echoes(c, T) ==
    /\ DocHas(RawMessage(c), "tool_calls")
    /\ RawMessage(c).o["tool_calls"] = T

\* Inbound messages whose content is a block sequence with tool_use blocks
\* that have a string id, a string name and an object input
ToolUseMessages(c) ==
    {k \in 1..Len(inbound[c].req.Messages) :
        LET U == ToolUses(inbound[c].req.Messages[k].Content) IN
        /\ Len(U) > 0
        /\ \A i \in 1..Len(U) :
              IsStr(Get(U[i], "id")) /\ IsStr(Get(U[i], "name")) /\ IsMap(Get(U[i], "input"))}

\* The position in the uuid stream of the identifier block i gets when it
\* has none: the log id comes first, then one per earlier block without an id
FreshIndex(U, i) == 2 + Cardinality({h \in 1..(i - 1) : Get(U[h], "id") = GoStr("")})

\* The round trip of the blocks U through the descriptors T; sameId says
\* for which blocks the identifier has to come back
RoundTrip(c, U, sameId(_)) ==
    /\ \E j \in 1..Len(SentMessages(c)) :
          /\ DocHas(SentMessages(c)[j], "tool_calls")
          /\ Describes(SentMessages(c)[j].o["tool_calls"], U)
    /\ \A j \in 1..Len(SentMessages(c)) :
          (/\ DocHas(SentMessages(c)[j], "tool_calls")
           /\ Describes(SentMessages(c)[j].o["tool_calls"], U)
           /\ Echoes(c, SentMessages(c)[j].o["tool_calls"])
           /\ pc[c] \in ClassifiedStates) =>
              /\ loc[c].stopReason = "tool_use"
              /\ Len(loc[c].content) = Len(U)
              /\ \A i \in 1..Len(U) :
                    /\ loc[c].content[i].m["type"] = GoStr("tool_use")
                    /\ loc[c].content[i].m["id"] =
                          IF sameId(U[i]) THEN Get(U[i], "id") ELSE GoStr(uuids[c][FreshIndex(U, i)])
                    /\ loc[c].content[i].m["name"] = Get(U[i], "name")
                    /\ loc[c].content[i].m["input"] = Get(U[i], "input")

AnyBlock(b) == TRUE
HasIdentifier(b) == Get(b, "id") # GoStr("")

\* C11 as stated: every tool_use block with id i, name n and object input v
\* goes out as a tool_calls descriptor with id i, function.name n and
\* function.arguments the JSON text of v, and an upstream message that sends
\* that tool_calls array back is decoded into tool_use blocks with the same
\* id, name and input and stop reason tool_use.
C11_ToolRoundTrip_AnyId ==
    \A c \in Calls :
        (inbound[c].kind = "request" /\ Translated(c)) =>
            \A k \in ToolUseMessages(c) :
                RoundTrip(c, ToolUses(inbound[c].req.Messages[k].Content), AnyBlock)

\* C11, amended: the same, with the identifier coming back for the blocks
\* whose id is not the empty string; a block with the empty id comes back
\* under a freshly generated identifier.
C11_ToolRoundTrip ==
    \A c \in Calls :
        (inbound[c].kind = "request" /\ Translated(c)) =>
            \A k \in ToolUseMessages(c) :
                RoundTrip(c, ToolUses(inbound[c].req.Messages[k].Content), HasIdentifier)

C11_Witness ==
    \E c \in Calls :
        /\ inbound[c].kind = "request"
        /\ ToolUseMessages(c) # {}
        /\ pc[c] = "Done"
        /\ Len(RawToolCalls(c)) = 2
        /\ RawToolCalls(c)[1].o["id"] = JStr("t1")
        /\ RawToolCalls(c)[2].o["id"] = JStr("")
        /\ resp[c].body.json.o["stop_reason"] = JStr("tool_use")
        /\ resp[c].body.json.o["content"].a[1].o["id"] = JStr("t1")
        /\ resp[c].body.json.o["content"].a[1].o["input"] = JObj([q |-> JStr("x")])
        /\ resp[c].body.json.o["content"].a[2].o["id"] = JStr("a2")

\* The upstream body decodes without an error and has no error key
DecodedWithoutError(c) ==
    /\ upstream[c].kind = "reply"
    /\ upstream[c].data.j \in {"object", "null"}
    /\ ~ReplyHas(c, "error")

\* The first message of the reply carries no tool call in any of the three shapes
NoToolCall(c) ==
    /\ Len(RawToolCalls(c)) = 0
    /\ ~RawIsObject(RawMessage(c), "function_call")
    /\ ~RawIsObject(RawMessage(c), "tool")

\* The message content of the reply when it is a string, else the empty string
RawText(c) ==
    LET m == RawMessage(c) IN
    IF DocHas(m, "content") /\ m.o["content"].j = "string" THEN m.o["content"].s ELSE ""

\* C12: a reply without an error key whose first message carries no tool
\* call (no choices, no message and no string content included) is classified
\* as exactly one text block holding the message content, the empty string
\* when there is none, with stop reason end_turn; an envelope returned for
\* it carries that block and that stop reason.
C12_PlainTextResult ==
    \A c \in Calls :
        (inbound[c].kind = "request" /\ DecodedWithoutError(c) /\ NoToolCall(c)) =>
            /\ pc[c] \in ClassifiedStates =>
                  /\ loc[c].content = <<GoMap([type |-> GoStr("text"), text |-> GoStr(RawText(c))])>>
                  /\ loc[c].stopReason = "end_turn"
            /\ pc[c] = "Done" =>
                  /\ resp[c].status = 200
                  /\ resp[c].body.json.o["content"] =
                        JArr(<<JObj([type |-> JStr("text"), text |-> JStr(RawText(c))])>>)
                  /\ resp[c].body.json.o["stop_reason"] = JStr("end_turn")

C12_Witness ==
    \E c \in Calls :
        /\ DecodedWithoutError(c)
        /\ ReplyHas(c, "choices")
        /\ upstream[c].data.o["choices"] = JArr(<<>>)
        /\ pc[c] = "Done"
        /\ resp[c].body.json.o["content"] = JArr(<<JObj([type |-> JStr("text"), text |-> JStr("")])>>)
        /\ resp[c].body.json.o["stop_reason"] = JStr("end_turn")

\* The keys of a ResponseEnvelope
EnvelopeKeys == {"id", "model", "role", "type", "content", "stop_reason", "stop_sequence", "usage"}

\* A JSON value as it shows in a message: a string as it is, null as <nil>
Shown(v) ==
    CASE v.j = "string" -> v.s
      [] v.j = "null"   -> "<nil>"
      [] v.j = "number" -> ToString(v.n)

\* The text the caller is to get for an upstream failure: the transport
\* error, the decoding error, or the provider's message behind the prefix
FailureText(c) ==
    LET d == upstream[c].data IN
    IF upstream[c].kind = "transport-error" THEN upstream[c].err
    ELSE IF d.j \notin {"object", "null"} THEN ErrUnmarshal
    ELSE IF ErrorObjectReply(c)
    THEN "OpenAI API error: " \o (IF DocHas(d.o["error"], "message")
                                  THEN Shown(d.o["error"].o["message"])
                                  ELSE "<nil>")
    ELSE "OpenAI API error: " \o Shown(d.o["error"])

UpstreamFailed(c) ==
    \/ upstream[c].kind = "transport-error"
    \/ upstream[c].data.j \notin {"object", "null"}
    \/ ReplyHas(c, "error")

\* C13: a call that decodes and then meets a transport failure, an upstream
\* body that is not a JSON object, or an error key gets 500 with a plain-text
\* body holding the failure description (the upstream message for a Provider
\* Error); 400 goes only to calls whose body did not decode and 200 only
\* with an envelope.
C13_StatusMapping ==
    \A c \in Calls :
        /\ (inbound[c].kind = "request" /\ UpstreamFailed(c)) =>
              /\ pc[c] \in BeforeClassification \cup {"UpstreamFailure"}
              /\ pc[c] = "UpstreamFailure" =>
                    /\ resp[c].status = 500
                    /\ resp[c].body.kind = "text"
                    /\ resp[c].body.text = FailureText(c)
        /\ resp[c].status \in {0, 200, 400, 500}
        /\ resp[c].status = 400 => inbound[c].kind # "request"
        /\ resp[c].status = 500 => (inbound[c].kind = "request" /\ UpstreamFailed(c))
        /\ resp[c].status = 200 =>
              /\ pc[c] = "Done"
              /\ resp[c].body.kind = "json"
              /\ resp[c].body.json.j = "object"
              /\ DOMAIN resp[c].body.json.o = EnvelopeKeys

C13_Witness ==
    \E c \in Calls :
        /\ inbound[c].kind = "request"
        /\ upstream[c] = Reply(429, JObj([error |-> ErrorObj]))
        /\ pc[c] = "UpstreamFailure"
        /\ resp[c] = HttpError(500, "OpenAI API error: rate limited")

\* The steps of the per-call state machine: the main line, the exit of a
\* call whose body does not decode, and the exits of an upstream failure
\* (while the request is being dispatched, and once the reply is in)
MainLine == <<"Received", "Translated", "Dispatched", "Classified", "Assembled", "Logged", "Done">>
ClaimedSteps ==
    {<<MainLine[i], MainLine[i + 1]>> : i \in 1..(Len(MainLine) - 1)}
    \cup {<<"Received", "BadRequest">>}
    \cup {<<"Translated", "UpstreamFailure">>, <<"Dispatched", "UpstreamFailure">>,
          <<"Classified", "UpstreamFailure">>}

\* C14: a call only ever moves along Received, Translated, Dispatched,
\* Classified, Assembled, Logged, Done, one state after the other and never
\* back, or leaves to BadRequest from Received or to UpstreamFailure from
\* dispatching or classification; it is in no other state.
C14_CallStateMachine ==
    [][\A c \in Calls : pc'[c] # pc[c] => <<pc[c], pc'[c]>> \in ClaimedSteps]_vars

\* C15: a call whose upstream result has been assembled into a response
\* always gets that response delivered, whatever the audit store does with
\* the INSERT, also when the store never finishes it.
C15_ResponseNotBlocked ==
    \A c \in {"c1"} : (pc[c] = "Assembled") ~> (pc[c] = "Done" /\ resp[c].status = 200)

\* The blocks of kind t in a message content, in block order
BlocksOfType(content, t) ==
    SelectSeq(ArrOf(content), LAMBDA b : IsMap(b) /\ Get(b, "type") = GoStr(t))

RECURSIVE JoinText(_)
JoinText(bs) ==
    IF Len(bs) = 0 THEN ""
    ELSE JoinText(SubSeq(bs, 1, Len(bs) - 1)) \o StrOf(Get(bs[Len(bs)], "text"))

\* What a message is to become on the wire: a string message as it is; a
\* block message as at most one combined message followed by one tool
\* message per tool_result block
FoldedMessage(msg) ==
    LET text == JoinText(BlocksOfType(msg.Content, "text"))
        uses == BlocksOfType(msg.Content, "tool_use")
        results == BlocksOfType(msg.Content, "tool_result")
        calls == JArr([i \in 1..Len(uses) |->
                    JObj([id |-> Encode(Get(uses[i], "id")), type |-> JStr("function"),
                          function |-> JObj([name |-> Encode(Get(uses[i], "name")),
                                             arguments |-> JStr(FormatText(Encode(Get(uses[i], "input"))))])])])
        combined == IF Len(uses) > 0
                    THEN JObj([role |-> JStr(msg.Role), content |-> JStr(text), tool_calls |-> calls])
                    ELSE JObj([role |-> JStr(msg.Role), content |-> JStr(text)])
    IN IF IsStr(msg.Content)
       THEN <<JObj([role |-> JStr(msg.Role), content |-> JStr(msg.Content.s)])>>
       ELSE (IF text # "" \/ Len(uses) > 0 THEN <<combined>> ELSE <<>>)
            \o [i \in 1..Len(results) |->
                   JObj([role |-> JStr("tool"),
                         content |-> Encode(Get(results[i], "content")),
                         tool_call_id |-> Encode(Get(results[i], "tool_use_id"))])]

\* C16: the messages of the outbound payload are, message by message in
\* inbound order, at most one combined message with the inbound role (there
\* exactly when the joined text is non-empty or the message has a tool_use
\* block) followed by one tool message per tool_result block in block order,
\* the tool messages after the combined message wherever the tool_result
\* blocks stood.
C16_BlockFolding ==
    \A c \in Calls :
        (inbound[c].kind = "request" /\ Translated(c)) =>
            LET msgs == inbound[c].req.Messages IN
            /\ SentMessages(c) = Concat([k \in 1..Len(msgs) |-> FoldedMessage(msgs[k])])
            /\ \A i \in 1..Len(wire[c]) : wire[c][i].body.o["messages"] = loc[c].body.o["messages"]

C16_Witness ==
    \E c \in Calls :
        /\ inbound[c].kind = "request"
        /\ inbound[c].req.Messages = <<FoldMsg(<<BlkResult1, BlkTextA, BlkUse>>), ResultMsg>>
        /\ Len(wire[c]) = 1
        /\ Len(wire[c][1].body.o["messages"].a) = 4
        /\ DOMAIN wire[c][1].body.o["messages"].a[1].o = {"role", "content", "tool_calls"}
        /\ wire[c][1].body.o["messages"].a[2].o["tool_call_id"] = JStr("t1")
        /\ wire[c][1].body.o["messages"].a[3].o["role"] = JStr("user")
        /\ wire[c][1].body.o["messages"].a[4].o["tool_call_id"] = JStr("t2")

\* The payload field the tool-choice directive travels on
ChoiceField(c) == IF ExpectedTag(cfg.BaseURL) = "groq" THEN "function_call" ELSE "tool_choice"
ChoiceFields == {"function_call", "tool_choice"}

\* C17 as stated: every request with a tool-choice directive goes out with
\* that directive unchanged on function_call (groq) or tool_choice (any other
\* provider), and "auto" stands there only when the request has no directive.
C17_ToolChoiceForwarded_Always ==
    \A c \in Calls :
        (inbound[c].kind = "request" /\ Translated(c)) =>
            LET sent == loc[c].body.o
                choice == inbound[c].req.ToolChoice
            IN /\ choice # GoNil =>
                    /\ ChoiceField(c) \in DOMAIN sent
                    /\ sent[ChoiceField(c)] = Encode(choice)
               /\ (ChoiceField(c) \in DOMAIN sent /\ sent[ChoiceField(c)] = JStr("auto")) =>
                    choice \in {GoNil, GoStr("auto")}

\* C17, amended: a request that declares at least one tool goes out with its
\* directive unchanged on the provider's field, and with "auto" there when it
\* has no directive; a request that declares no tool goes out with neither
\* field, directive or not.
C17_ToolChoiceForwarded ==
    \A c \in Calls :
        (inbound[c].kind = "request" /\ Translated(c)) =>
            LET sent == loc[c].body.o
                choice == inbound[c].req.ToolChoice
            IN /\ \A i \in 1..Len(wire[c]) : wire[c][i].body = loc[c].body
               /\ IF Len(inbound[c].req.Tools) > 0
                  THEN /\ DOMAIN sent \cap ChoiceFields = {ChoiceField(c)}
                       /\ sent[ChoiceField(c)] =
                             IF choice # GoNil THEN Encode(choice) ELSE JStr("auto")
                  ELSE DOMAIN sent \cap ChoiceFields = {}

C17_Witness ==
    \E c \in Calls :
        /\ cfg.BaseURL = URLGroq
        /\ inbound[c].kind = "request"
        /\ Len(inbound[c].req.Tools) = 1
        /\ inbound[c].req.ToolChoice = GoMap([type |-> GoStr("any")])
        /\ Len(wire[c]) = 1
        /\ wire[c][1].body.o["function_call"] = JObj([type |-> JStr("any")])
        /\ "tool_choice" \notin DOMAIN wire[c][1].body.o

\* C18: a call sends at most one request to the upstream and hands at most
\* one row to the audit store, whichever way it ends; a call that got past
\* translation has sent exactly one request once it is over, and a call that
\* is done has handed over exactly one row.
C18_NoDuplication ==
    \A c \in Calls :
        /\ Len(wire[c]) <= 1
        /\ Len(execs[c]) <= 1
        /\ Cardinality({r \in db : r \in {execs[c][i] : i \in 1..Len(execs[c])}}) <= 1
        /\ Cardinality(db) <= Cardinality({d \in Calls : Len(execs[d]) > 0})
        /\ pc[c] \in {"UpstreamFailure", "Panicked", "Done"} => Len(wire[c]) = 1
        /\ pc[c] = "Done" => Len(execs[c]) = 1

C18_Witness ==
    \E c, d \in Calls :
        /\ pc[c] = "Done" /\ Len(wire[c]) = 1 /\ Len(execs[c]) = 1
        /\ store[c] = "reject"
        /\ pc[d] = "UpstreamFailure" /\ upstream[d].kind = "transport-error"
        /\ Len(wire[d]) = 1 /\ Len(execs[d]) = 0
        /\ db = {}

\* What a call has produced so far: its locals, what it sent, what it
\* answered, and, once the INSERT is behind it, the row it handed over
Produced(c) ==
    [loc |-> loc[c], wire |-> wire[c], resp |-> resp[c],
     row |-> IF pc[c] \in {"Logged", "Done"} THEN execs[c] ELSE <<>>]

\* C19: whatever the interleaving, two calls given the same request, the
\* same upstream result and the same generated identifiers have, at the same
\* stage, produced the same payload, response and audit row; a step of one
\* call changes nothing another call has produced, the table being the only
\* thing calls share; and the row of a call carries the call's own identifier.
C19_Independence ==
    /\ [](\A c, d \in Calls :
            /\ (SameInputs(c, d) /\ pc[c] = pc[d]) => Produced(c) = Produced(d)
            /\ \A i \in 1..Len(execs[c]) :
                  /\ execs[c][i].id = uuids[c][1]
                  /\ execs[c][i].request = loc[c].body
                  /\ execs[c][i].response = upstream[c].data
            /\ (pc[c] \in {"Logged", "Done"} /\ store[c] = "accept"
                  /\ (\A e \in Calls \ {c} : uuids[e][1] # uuids[c][1])) => execs[c][1] \in db)
    /\ [][\A c \in Calls :
            pc'[c] # pc[c] =>
                /\ \A d \in Calls \ {c} :
                      /\ pc'[d] = pc[d] /\ loc'[d] = loc[d] /\ wire'[d] = wire[d]
                      /\ resp'[d] = resp[d] /\ execs'[d] = execs[d] /\ oplog'[d] = oplog[d]
                /\ db' \subseteq db \cup {execs'[c][i] : i \in 1..Len(execs'[c])}
                /\ db \subseteq db']_vars

C19_Witness ==
    \E c, d \in Calls :
        /\ pc[c] = "Done" /\ pc[d] = "Done"
        /\ inbound[c] = inbound[d]
        /\ upstream[c] # upstream[d]
        /\ uuids[c][1] # uuids[d][1]
        /\ resp[c] # resp[d]
        /\ db = {execs[c][1], execs[d][1]}
        /\ Cardinality(db) = 2
        /\ resp[c].body.json.o["stop_reason"] = JStr("tool_use")
        /\ resp[d].body.json.o["stop_reason"] = JStr("end_turn")

\* The row a successful call is to hand to the audit store
ExpectedRow(c, r) ==
    /\ r.id = uuids[c][1]
    /\ r.provider = cfg.BaseURL
    /\ r.provider # ExpectedTag(cfg.BaseURL)
    /\ r.endpoint = wire[c][1].url
    /\ r.model = inbound[c].req.Model
    /\ r.request = wire[c][1].body
    /\ r.response = upstream[c].data
    /\ r.status_code = upstream[c].status
    /\ r.error_message = ""
    /\ r.prompt_tokens = ExpectedTokens(c, "prompt_tokens")
    /\ r.completion_tokens = ExpectedTokens(c, "completion_tokens")

\* C20: every call that was decoded and is over has handed exactly one row
\* to the audit store, and the row of a successful call holds the configured
\* base URL as provider, the serialized payload as request, the upstream body
\* as response, the upstream status as status_code, an empty error_message
\* and the upstream token counts, zero where they are missing or not numbers.
C20_AuditRecordShape ==
    \A c \in Calls :
        (inbound[c].kind = "request" /\ pc[c] \in Terminal) =>
            /\ Len(execs[c]) = 1
            /\ pc[c] = "Done" => ExpectedRow(c, execs[c][1])

\* The recognized block tags
KnownTags == {GoStr("text"), GoStr("tool_use"), GoStr("tool_result")}

\* A history without the sequence elements that are not objects or carry an
\* unrecognized tag
Recognized(msgs) ==
    [k \in 1..Len(msgs) |->
        IF IsArr(msgs[k].Content)
        THEN [msgs[k] EXCEPT !.Content =
                 GoArr(SelectSeq(msgs[k].Content.a,
                                 LAMBDA b : IsMap(b) /\ Get(b, "type") \in KnownTags))]
        ELSE msgs[k]]

\* The number of outbound messages that come before those of inbound message k
OutboundBefore(msgs, k) ==
    Len(Concat([h \in 1..(k - 1) |-> FoldedMessage(msgs[h])]))

Envelope(c) == resp[c].body.json.o

\* C22: the content of every envelope returned is non-empty and of one
\* kind: exactly one text block with stop reason end_turn, or tool_use blocks
\* only, one per tool-call entry of the upstream message in the upstream
\* order, with stop reason tool_use; text that came with a tool call is in
\* no block.
C22_EnvelopeInvariant ==
    \A c \in Calls :
        resp[c].status = 200 =>
            LET blocks == Envelope(c)["content"].a
                holders == RawHolders(c)
            IN /\ Envelope(c)["content"].j = "array"
               /\ Len(blocks) > 0
               /\ IF Len(holders) = 0
                  THEN /\ Len(blocks) = 1
                       /\ DOMAIN blocks[1].o = {"type", "text"}
                       /\ blocks[1].o["type"] = JStr("text")
                       /\ blocks[1].o["text"].j = "string"
                       /\ Envelope(c)["stop_reason"] = JStr("end_turn")
                  ELSE /\ Len(blocks) = Len(holders)
                       /\ \A i \in 1..Len(blocks) :
                             /\ DOMAIN blocks[i].o = {"type", "id", "name", "input"}
                             /\ blocks[i].o["type"] = JStr("tool_use")
                             /\ blocks[i].o["name"] = holders[i].o["name"]
                       /\ Envelope(c)["stop_reason"] = JStr("tool_use")

C22_Witness ==
    \E c \in Calls :
        /\ resp[c].status = 200
        /\ RawText(c) = "hi"
        /\ RawToolCalls(c) = <<TCArr, TCGood>>
        /\ Len(Envelope(c)["content"].a) = 2
        /\ Envelope(c)["content"].a[1].o["name"] = JStr("calc")
        /\ Envelope(c)["content"].a[2].o["name"] = JStr("lookup")
        /\ \A i \in 1..2 : Envelope(c)["content"].a[i].o["type"] = JStr("tool_use")

\* An upstream reply with a status outside 200..299 and a JSON object
\* without an error key as body
NonSuccessWithoutError(c) ==
    /\ RepliedObject(c)
    /\ upstream[c].status \notin 200..299
    /\ ~ReplyHas(c, "error")

\* C23: two calls that differ in the upstream status only end the same
\* way; a reply with a status outside 2xx and no error key in its body is
\* answered with a 200 envelope, one empty text block when the body has no
\* choices, and the upstream status shows only in the row handed to the
\* audit store.
C23_StatusIgnored ==
    \A c \in Calls :
        /\ \A d \in Calls :
              (/\ inbound[c] = inbound[d] /\ uuids[c] = uuids[d] /\ store[c] = store[d]
               /\ upstream[c].kind = "reply" /\ upstream[d].kind = "reply"
               /\ upstream[c].data = upstream[d].data
               /\ pc[c] \in Terminal /\ pc[d] \in Terminal) => resp[c] = resp[d]
        /\ (inbound[c].kind = "request" /\ NonSuccessWithoutError(c) /\ pc[c] \in Terminal) =>
              /\ pc[c] = "Done"
              /\ resp[c].status = 200
              /\ resp[c].body.kind = "json"
              /\ ~ReplyHas(c, "choices") =>
                    Envelope(c)["content"] = JArr(<<JObj([type |-> JStr("text"), text |-> JStr("")])>>)
              /\ Len(execs[c]) = 1
              /\ execs[c][1].status_code = upstream[c].status

\* C24: a body with a top-level error key, whatever JSON value it holds and
\* whatever else the body carries, ends the call with a 500 and a plain-text
\* body; nothing is handed to the audit store and no envelope is returned.
C24_ErrorKeyDecides ==
    \A c \in Calls :
        (inbound[c].kind = "request" /\ ReplyHas(c, "error")) =>
            /\ execs[c] = <<>>
            /\ \A r \in db : r.id # loc[c].logID \/ (\E d \in Calls \ {c} : r \in {execs[d][i] : i \in 1..Len(execs[d])})
            /\ resp[c].status \in {0, 500}
            /\ pc[c] \in Terminal =>
                  /\ pc[c] = "UpstreamFailure"
                  /\ resp[c].status = 500
                  /\ resp[c].body.kind = "text"
                  /\ resp[c].body.text = FailureText(c)

C24_Witness ==
    \E c \in Calls :
        /\ inbound[c].kind = "request"
        /\ upstream[c] = Reply(200, JObj([error |-> JNull, choices |-> TextChoice,
                                          usage |-> UsageFull]))
        /\ pc[c] = "UpstreamFailure"
        /\ resp[c] = HttpError(500, "OpenAI API error: <nil>")
        /\ execs[c] = <<>>
        /\ db = {}

====
